---- MODULE Spec2Model ----
(***************************************************************************)
(* Model of app.js: a page that picks a random review, classifies it with  *)
(* a local sentiment model, maps (label, score) to a business action and   *)
(* logs the interaction to a spreadsheet endpoint.                         *)
(*                                                                         *)
(* Numbers are fixed-point, in twentieths: the JavaScript literal 1.0 is   *)
(* 20, 0.4 is 8, 0.5 is 10 and 0.7 is 14.  On this grid the subtraction    *)
(* 1.0 - c is exact, as it is in IEEE doubles for c = 0.3 and c = 0.6.     *)
(*                                                                         *)
(* JavaScript values are records with a type tag t:                        *)
(*   numbers    "num" (v twentieths), "nan", "inf" (v = 1 or -1)           *)
(*   others     "undef", "null", "str" (a numeric string whose value is v),*)
(*              "text" (a string that is no numeral)                       *)
(* Strings that the program inspects are sequences of characters.          *)
(***************************************************************************)
EXTENDS Integers, Sequences, FiniteSets, TLC

\* ------------------------------------------------------------- bounds
\* How far outside [0.0, 1.0] the confidences range, in twentieths.
MaxOver == 2
\* Rows of the TSV file.
MaxRows == 1
\* Logging requests in flight at once.
MaxPending == 1

\* ---------------------------------------------------- program constants
\* 1.0 (line 56), 0.4 (line 60), 0.7 (line 66), 0.5 (lines 50, 232, 252).
One == 20
LowThreshold == 8
HighThreshold == 14
Neutral == 10

\* ------------------------------------------------------------------ state
VARIABLES
  reviews,            \* let reviews: the review texts loaded from the TSV
  apiToken,           \* let apiToken
  storedToken,        \* localStorage["hfApiToken"]
  sentimentPipeline,  \* let sentimentPipeline: "null" or "pipeline"
  statusText,         \* statusElement.textContent
  errorShown,         \* errorElement.style.display = "block"
  errorText,          \* errorElement.textContent
  reviewText,         \* reviewText.textContent
  loadingShown,       \* loadingElement.style.display = "block"
  btnDisabled,        \* analyzeBtn.disabled
  sentimentClasses,   \* sentimentResult.classList, beyond "sentiment-result"
  sentimentHTML,      \* sentimentResult.innerHTML: icon and sentiment string
  actionResult,       \* the #action-result div
  reviewsLoad,        \* the fetch of reviews_test.tsv: "pending" or "done"
  modelLoad,          \* the pipeline(...) promise: "pending", "loaded", "failed"
  pc,                 \* the promise chain of the analysis in progress
  settled,            \* how analyzeSentiment's promise settled
  pendingLogs,        \* POSTs to the logging endpoint still in flight
  lastLog,            \* the form data of the last POST
  lastWarn,           \* the last console.warn of logToGoogleSheets
  shownResult,        \* the argument of the last call of displaySentiment
  call,               \* the last call of determineBusinessAction
  ref                 \* an earlier call of determineBusinessAction

vars ==
  <<reviews, apiToken, storedToken, sentimentPipeline, statusText, errorShown,
    errorText, reviewText, loadingShown, btnDisabled, sentimentClasses,
    sentimentHTML, actionResult, reviewsLoad, modelLoad, pc, settled,
    pendingLogs, lastLog, lastWarn, shownResult, call, ref>>

globals == <<reviews, apiToken, storedToken, sentimentPipeline>>
errorVars == <<errorShown, errorText>>
resultVars == <<sentimentClasses, sentimentHTML, actionResult>>
logVars == <<pendingLogs, lastLog, lastWarn>>
callVars == <<shownResult, call, ref>>
loadVars == <<reviewsLoad, modelLoad, statusText>>
chainVars == <<pc, settled>>

\* ------------------------------------------------------ JavaScript values
Num(n) == [t |-> "num", v |-> n]
NaN == [t |-> "nan", v |-> 0]
Infinity == [t |-> "inf", v |-> 1]
NegInfinity == [t |-> "inf", v |-> 0 - 1]
Undefined == [t |-> "undef", v |-> 0]
Null == [t |-> "null", v |-> 0]
NumStr(n) == [t |-> "str", v |-> n]
Text == [t |-> "text", v |-> 0]

\* typeof x === "number"
TypeofNumber(x) == x.t \in {"num", "nan", "inf"}

\* ToNumber, as the relational and arithmetic operators apply it.
ToNumber(x) ==
  CASE x.t = "num" -> x
    [] x.t = "nan" -> NaN
    [] x.t = "inf" -> x
    [] x.t = "undef" -> NaN
    [] x.t = "null" -> Num(0)
    [] x.t = "str" -> Num(x.v)
    [] OTHER -> NaN

\* a - b on numbers (a a finite literal)
JsSub(a, b) ==
  LET n == ToNumber(b) IN
  CASE n.t = "nan" -> NaN
    [] n.t = "inf" -> [t |-> "inf", v |-> 0 - n.v]
    [] OTHER -> Num(a - n.v)

\* x <= k and x < k for a finite literal k; any comparison with NaN is false.
JsLe(x, k) ==
  LET n == ToNumber(x) IN
  CASE n.t = "nan" -> FALSE
    [] n.t = "inf" -> n.v < 0
    [] OTHER -> n.v <= k

JsLt(x, k) ==
  LET n == ToNumber(x) IN
  CASE n.t = "nan" -> FALSE
    [] n.t = "inf" -> n.v < 0
    [] OTHER -> n.v < k

\* x > k
JsGt(x, k) ==
  LET n == ToNumber(x) IN
  CASE n.t = "nan" -> FALSE
    [] n.t = "inf" -> n.v > 0
    [] OTHER -> n.v > k

\* ---------------------------------------------------------------- strings
Lower == <<"a", "e", "g", "i", "l", "n", "o", "p", "r", "s", "t", "u", "v">>
Upper == <<"A", "E", "G", "I", "L", "N", "O", "P", "R", "S", "T", "U", "V">>

UpperChar(ch) ==
  IF \E i \in DOMAIN Lower : Lower[i] = ch
  THEN Upper[CHOOSE i \in DOMAIN Lower : Lower[i] = ch]
  ELSE ch

RECURSIVE UpperChars(_)
UpperChars(s) ==
  IF s = <<>> THEN <<>> ELSE <<UpperChar(Head(s))>> \o UpperChars(Tail(s))

\* The label strings in use, uppercased once and for all.
LabelStrings ==
  {<<>>,
   <<"P", "O", "S", "I", "T", "I", "V", "E">>,
   <<"N", "E", "G", "A", "T", "I", "V", "E">>,
   <<"N", "E", "U", "T", "R", "A", "L">>,
   <<"p", "o", "s", "i", "t", "i", "v", "e">>,
   <<"P", "o", "s", "i", "t", "i", "v", "e">>,
   <<"n", "e", "g", "a", "t", "i", "v", "e">>,
   <<"N", "e", "g", "a", "t", "i", "v", "e">>,
   <<"P", "O", "S", "I", "T", "I", "V", "E", " ">>,
   <<"L", "A", "B", "E", "L", "_", "1">>}
UpperTable == [s \in LabelStrings |-> UpperChars(s)]

\* String.prototype.toUpperCase
ToUpperCase(s) == IF s \in LabelStrings THEN UpperTable[s] ELSE UpperChars(s)

RECURSIVE TrimStart(_)
TrimStart(s) ==
  IF s # <<>> /\ Head(s) = " " THEN TrimStart(Tail(s)) ELSE s

RECURSIVE TrimEnd(_)
TrimEnd(s) ==
  IF s # <<>> /\ s[Len(s)] = " " THEN TrimEnd(SubSeq(s, 1, Len(s) - 1)) ELSE s

\* String.prototype.trim
Trim(s) == TrimEnd(TrimStart(s))

POSITIVE == <<"P", "O", "S", "I", "T", "I", "V", "E">>
NEGATIVE == <<"N", "E", "G", "A", "T", "I", "V", "E">>
NEUTRAL == <<"N", "E", "U", "T", "R", "A", "L">>

\* A label argument: a string (s its characters), null, undefined, or a
\* truthy value that is no string (a number, an object).
StrLabel(s) == [t |-> "str", s |-> s]
NullLabel == [t |-> "null", s |-> <<>>]
UndefLabel == [t |-> "undef", s |-> <<>>]
ObjLabel == [t |-> "obj", s |-> <<>>]

\* ------------------------------------------------ determineBusinessAction
OFFER_COUPON ==
  [actionCode |-> "OFFER_COUPON",
   uiMessage |-> "We are truly sorry. Please accept this 50% discount coupon.",
   uiColor |-> "#ef4444"]

REQUEST_FEEDBACK ==
  [actionCode |-> "REQUEST_FEEDBACK",
   uiMessage |-> "Thank you! Could you tell us how we can improve?",
   uiColor |-> "#6b7280"]

ASK_REFERRAL ==
  [actionCode |-> "ASK_REFERRAL",
   uiMessage |-> "Glad you liked it! Refer a friend and earn rewards.",
   uiColor |-> "#3b82f6"]

NoDecision == [actionCode |-> "", uiMessage |-> "", uiColor |-> ""]

\* Mutant: label.toUpperCase() with no guard for a missing label.
LabelThrowsOnAbsent(label) == label.t \in {"obj", "null", "undef"}

\* label ? label.toUpperCase() : '' throws a TypeError when label is truthy
\* and has no toUpperCase method.
LabelThrows(label) == label.t = "obj"

\* Mutant: the label compared as given, not uppercased.
UpperLabelRaw(label) ==
  IF label.t = "str" /\ label.s # <<>> THEN label.s ELSE <<>>

\* const upperLabel = label ? label.toUpperCase() : '';
UpperLabel(label) ==
  IF label.t = "str" /\ label.s # <<>> THEN ToUpperCase(label.s) ELSE <<>>

\* Mutant: the two polarities exchanged.
NormalizedScoreInverted(confidence, label) ==
  IF UpperLabel(label) = POSITIVE THEN JsSub(One, confidence)
  ELSE IF UpperLabel(label) = NEGATIVE THEN confidence
  ELSE Num(Neutral)

\* lines 50-57
NormalizedScore(confidence, label) ==
  IF UpperLabel(label) = POSITIVE THEN confidence
  ELSE IF UpperLabel(label) = NEGATIVE THEN JsSub(One, confidence)
  ELSE Num(Neutral)

\* Mutant: the lower threshold exclusive.
ApplyThresholdsStrictLow(normalizedScore) ==
  IF JsLt(normalizedScore, LowThreshold) THEN OFFER_COUPON
  ELSE IF JsLt(normalizedScore, HighThreshold) THEN REQUEST_FEEDBACK
  ELSE ASK_REFERRAL

\* lines 59-78
ApplyThresholds(normalizedScore) ==
  IF JsLe(normalizedScore, LowThreshold) THEN OFFER_COUPON
  ELSE IF JsLt(normalizedScore, HighThreshold) THEN REQUEST_FEEDBACK
  ELSE ASK_REFERRAL

\* Mutant: normalizedScore kept between calls (a module-level variable that
\* is not reset), so that an unknown label reuses the previous call's score.
DetermineBusinessActionStale(confidence, label) ==
  IF call.made /\ UpperLabel(label) \notin {POSITIVE, NEGATIVE}
  THEN ApplyThresholds(call.norm)
  ELSE ApplyThresholds(NormalizedScore(confidence, label))

\* lines 48-79
DetermineBusinessAction(confidence, label) ==
  ApplyThresholds(NormalizedScore(confidence, label))

\* ------------------------------------------------------- displaySentiment
\* The argument of displaySentiment: something that is no array, [], [x]
\* with x no array, [[]], or [[d, ...]] with first element d.  d is null, a
\* primitive, or an object with (possibly missing or wrong-typed) label and
\* score.
NullData == [t |-> "null", label |-> UndefLabel, score |-> Undefined]
PrimData == [t |-> "prim", label |-> UndefLabel, score |-> Undefined]
ObjData(label, score) == [t |-> "obj", label |-> label, score |-> score]

NotArray == [shape |-> "notarray", d |-> NullData]
EmptyArray == [shape |-> "empty", d |-> NullData]
InnerNotArray == [shape |-> "innernotarray", d |-> NullData]
InnerEmpty == [shape |-> "innerempty", d |-> NullData]
Nested(d) == [shape |-> "data", d |-> d]

\* Mutant: the score passed on without the typeof check of line 250.
ParseResultNoScoreDefault(result) ==
  IF result.shape = "data" /\ result.d.t = "obj"
  THEN LET label == IF result.d.label.t = "str"
                    THEN ToUpperCase(result.d.label.s) ELSE NEUTRAL
           score == result.d.score
       IN [label |-> label, score |-> score,
           sentiment |-> IF label = POSITIVE /\ JsGt(score, Neutral)
                           THEN "positive"
                         ELSE IF label = NEGATIVE /\ JsGt(score, Neutral)
                           THEN "negative"
                         ELSE "neutral"]
  ELSE [label |-> NEUTRAL, score |-> Num(Neutral), sentiment |-> "neutral"]

\* Mutant: the bucket taken from the label alone.
ParseResultLabelOnly(result) ==
  IF result.shape = "data" /\ result.d.t = "obj"
  THEN LET label == IF result.d.label.t = "str"
                    THEN ToUpperCase(result.d.label.s) ELSE NEUTRAL
           score == IF TypeofNumber(result.d.score)
                    THEN result.d.score ELSE Num(Neutral)
       IN [label |-> label, score |-> score,
           sentiment |-> IF label = POSITIVE THEN "positive"
                         ELSE IF label = NEGATIVE THEN "negative"
                         ELSE "neutral"]
  ELSE [label |-> NEUTRAL, score |-> Num(Neutral), sentiment |-> "neutral"]

\* lines 231-263: the bucket, the score and the label displaySentiment
\* derives from its argument.
ParseResult(result) ==
  IF result.shape = "data" /\ result.d.t = "obj"
  THEN LET label == IF result.d.label.t = "str"
                    THEN ToUpperCase(result.d.label.s) ELSE NEUTRAL
           score == IF TypeofNumber(result.d.score)
                    THEN result.d.score ELSE Num(Neutral)
       IN [label |-> label, score |-> score,
           sentiment |-> IF label = POSITIVE /\ JsGt(score, Neutral)
                           THEN "positive"
                         ELSE IF label = NEGATIVE /\ JsGt(score, Neutral)
                           THEN "negative"
                         ELSE "neutral"]
  ELSE [label |-> NEUTRAL, score |-> Num(Neutral), sentiment |-> "neutral"]

\* (score * 100).toFixed(1), as a number of tenths of a percent
ToFixedPercent(score) ==
  IF score.t = "num" THEN Num((score.v * 1000) \div One) ELSE score

\* `${label} (${(score * 100).toFixed(1)}%)`
SentimentStr(label, score) == [label |-> label, pct |-> ToFixedPercent(score)]

GetSentimentIcon(sentiment) ==
  CASE sentiment = "positive" -> "fa-thumbs-up"
    [] sentiment = "negative" -> "fa-thumbs-down"
    [] OTHER -> "fa-question-circle"

\* ------------------------------------------------------- initial state
\* The record of one call of determineBusinessAction: its arguments, the
\* local normalizedScore, whether it threw, what it returned, and the token
\* held by the page when it was called.
CallRecord(confidence, label) ==
  IF LabelThrows(label)
  THEN [made |-> TRUE, conf |-> confidence, label |-> label,
        norm |-> Num(Neutral), threw |-> TRUE, out |-> NoDecision,
        token |-> apiToken]
  ELSE [made |-> TRUE, conf |-> confidence, label |-> label,
        norm |-> NormalizedScore(confidence, label), threw |-> FALSE,
        out |-> DetermineBusinessAction(confidence, label), token |-> apiToken]

NoCall ==
  [made |-> FALSE, conf |-> Undefined, label |-> UndefLabel,
   norm |-> Undefined, threw |-> FALSE, out |-> NoDecision, token |-> <<>>]

NoToken == [has |-> FALSE, v |-> <<>>]
Stored(v) == [has |-> TRUE, v |-> v]
NoHTML == [icon |-> "", str |-> SentimentStr(<<>>, Undefined)]
NoAction == [shown |-> FALSE, text |-> "", color |-> ""]
NoLog == [review |-> <<>>, sentiment |-> SentimentStr(<<>>, Undefined), action |-> ""]
Rejected == [shape |-> "rejected", d |-> NullData]
NotSettled == [ok |-> FALSE, output |-> Rejected, message |-> ""]

\* The state once the DOMContentLoaded handler (lines 23-40) has run:
\* loadReviews has sent its fetch, the saved token (if any) is read, and
\* initSentimentModel waits for pipeline(...).
Init ==
  /\ reviews = <<>>
  /\ storedToken \in {NoToken, Stored(<<"t">>)}
  /\ apiToken = IF storedToken.has /\ storedToken.v # <<>> THEN storedToken.v ELSE <<>>
  /\ sentimentPipeline = "null"
  /\ statusText = "Loading sentiment model..."
  /\ errorShown = FALSE
  /\ errorText = ""
  /\ reviewText = <<>>
  /\ loadingShown = FALSE
  /\ btnDisabled = FALSE
  /\ sentimentClasses = {}
  /\ sentimentHTML = NoHTML
  /\ actionResult = NoAction
  /\ reviewsLoad = "pending"
  /\ modelLoad = "pending"
  /\ pc = "idle"
  /\ settled = NotSettled
  /\ pendingLogs = 0
  /\ lastLog = NoLog
  /\ lastWarn = ""
  /\ shownResult = NotArray
  /\ call = NoCall
  /\ ref = NoCall

\* showError(message)
ShowError(message) ==
  /\ errorText' = message
  /\ errorShown' = TRUE

\* ------------------------------------------------------------ input sets
BoundedSeq(S, n) == UNION {[1..k -> S] : k \in 0..n}

\* row.text of a TSV row: a review text, a blank string, a missing column
RowTexts == {StrLabel(<<" ", "o", "k">>), StrLabel(<<" ">>), UndefLabel}

\* apiTokenInput.value
TokenInputs == {<<" ">>, <<" ", "t", " ">>}

\* What the inference model answers in the running page.
PageOutputs ==
  {NotArray, EmptyArray, Nested(NullData),
   Nested(ObjData(StrLabel(POSITIVE), Num(HighThreshold))),
   Nested(ObjData(StrLabel(<<"n", "e", "g", "a", "t", "i", "v", "e">>), Num(HighThreshold))),
   Nested(ObjData(StrLabel(POSITIVE), Undefined))}

\* error.message of a rejected model call
RejectMessages == {"", "model failed"}

\* Arguments of a direct call of determineBusinessAction.
Numbers == {Num(n) : n \in (0 - MaxOver)..(One + MaxOver)}
NonNumbers == {Undefined, Null, NaN, Infinity, NegInfinity, NumStr(LowThreshold - 1), Text}
Confidences == Numbers \cup NonNumbers
Labels ==
  {StrLabel(POSITIVE), StrLabel(NEGATIVE),
   StrLabel(<<"p", "o", "s", "i", "t", "i", "v", "e">>),
   StrLabel(<<"N", "e", "g", "a", "t", "i", "v", "e">>),
   StrLabel(<<"P", "O", "S", "I", "T", "I", "V", "E", " ">>),
   StrLabel(NEUTRAL), StrLabel(<<>>), NullLabel, UndefLabel, ObjLabel}

\* Arguments of a direct call of displaySentiment.
DataLabels ==
  {StrLabel(POSITIVE), StrLabel(NEGATIVE),
   StrLabel(<<"P", "o", "s", "i", "t", "i", "v", "e">>),
   StrLabel(<<"L", "A", "B", "E", "L", "_", "1">>), UndefLabel}
DataScores ==
  {Num(LowThreshold), Num(Neutral), Num(Neutral + 1),
   Num(One - LowThreshold), Num(HighThreshold), Num(One),
   NaN, Infinity, Undefined, NumStr(One - 1)}
Results ==
  {NotArray, EmptyArray, InnerNotArray, InnerEmpty, Nested(NullData), Nested(PrimData)}
    \cup {Nested(ObjData(l, x)) : l \in DataLabels, x \in DataScores}

\* ----------------------------------------------------------- page loading
\* lines 119-128: Papa.parse completes; reviews = the non-blank string texts
KeepText(text) == text.t = "str" /\ Trim(text.s) # <<>>

FilterTexts(rows) ==
  LET keep == {i \in DOMAIN rows : KeepText(rows[i])}
      RECURSIVE Pick(_)
      Pick(i) == IF i > Len(rows) THEN <<>>
                 ELSE IF i \in keep THEN <<rows[i].s>> \o Pick(i + 1)
                 ELSE Pick(i + 1)
  IN Pick(1)

ParseComplete ==
  /\ reviewsLoad = "pending"
  /\ \E rows \in BoundedSeq(RowTexts, MaxRows) : reviews' = FilterTexts(rows)
  /\ reviewsLoad' = "done"
  /\ UNCHANGED <<apiToken, storedToken, sentimentPipeline, statusText, errorVars,
                 reviewText, loadingShown, btnDisabled, resultVars, modelLoad,
                 chainVars, logVars, callVars>>

\* lines 113-116, 135-138: the fetch rejects or answers with a non-OK status
FetchFailed ==
  /\ reviewsLoad = "pending"
  /\ ShowError("Failed to load TSV file: Failed to load TSV file")
  /\ reviewsLoad' = "done"
  /\ UNCHANGED <<globals, statusText, reviewText, loadingShown, btnDisabled,
                 resultVars, modelLoad, chainVars, logVars, callVars>>

\* lines 129-132: Papa.parse reports an error
ParseError ==
  /\ reviewsLoad = "pending"
  /\ ShowError("Failed to parse TSV file: parse error")
  /\ reviewsLoad' = "done"
  /\ UNCHANGED <<globals, statusText, reviewText, loadingShown, btnDisabled,
                 resultVars, modelLoad, chainVars, logVars, callVars>>

\* lines 91-98: pipeline(...) resolves
ModelLoaded ==
  /\ modelLoad = "pending"
  /\ sentimentPipeline' = "pipeline"
  /\ statusText' = "Sentiment model ready"
  /\ modelLoad' = "loaded"
  /\ UNCHANGED <<reviews, apiToken, storedToken, errorVars, reviewText,
                 loadingShown, btnDisabled, resultVars, reviewsLoad, chainVars,
                 logVars, callVars>>

\* lines 99-107: pipeline(...) rejects
ModelLoadFailed ==
  /\ modelLoad = "pending"
  /\ ShowError("Failed to load sentiment model. Please check your network connection and try again.")
  /\ statusText' = "Model load failed"
  /\ modelLoad' = "failed"
  /\ UNCHANGED <<globals, reviewText, loadingShown, btnDisabled, resultVars,
                 reviewsLoad, chainVars, logVars, callVars>>

\* lines 142-149
SaveApiToken ==
  /\ \E value \in TokenInputs :
       /\ apiToken' = Trim(value)
       /\ storedToken' = IF Trim(value) # <<>> THEN Stored(Trim(value)) ELSE NoToken
  /\ UNCHANGED <<reviews, sentimentPipeline, statusText, errorVars, reviewText,
                 loadingShown, btnDisabled, resultVars, reviewsLoad, modelLoad,
                 chainVars, logVars, callVars>>

\* ------------------------------------------------------------- analysis
\* line 155: !Array.isArray(reviews) || reviews.length === 0
NoReviews == reviews = <<>>

\* Mutant: the readiness check of line 160 left out.
NoPipelineAsReady == FALSE

\* line 160: !sentimentPipeline
NoPipeline == sentimentPipeline = "null"

\* lines 152-188 up to the await of line 198: a click on the analyze button.
\* A disabled button dispatches no click.
AnalyzeRandomReview ==
  /\ ~btnDisabled
  /\ pc = "idle"
  /\ IF NoReviews
     THEN /\ ShowError("No reviews available. Please try again later.")
          /\ UNCHANGED <<reviewText, loadingShown, btnDisabled, resultVars, chainVars>>
     ELSE IF NoPipeline
     THEN /\ ShowError("Sentiment model is not ready yet. Please wait a moment.")
          /\ UNCHANGED <<reviewText, loadingShown, btnDisabled, resultVars, chainVars>>
     ELSE /\ pendingLogs < MaxPending
          /\ errorShown' = FALSE
          /\ errorText' = errorText
          /\ \E i \in DOMAIN reviews : reviewText' = reviews[i]
          /\ loadingShown' = TRUE
          /\ btnDisabled' = TRUE
          /\ sentimentHTML' = NoHTML
          /\ sentimentClasses' = {}
          /\ actionResult' = actionResult
          /\ IF sentimentPipeline = "null"
             THEN /\ pc' = "settled"
                  /\ settled' = [ok |-> FALSE, output |-> Rejected,
                                 message |-> "Sentiment model is not initialized."]
             ELSE /\ pc' = "await"
                  /\ settled' = NotSettled
  /\ UNCHANGED <<globals, loadVars, logVars, callVars>>

\* Mutant: the output of the model passed on unchecked.
InvalidOutputNever(output) == FALSE

\* line 200: !Array.isArray(output) || output.length === 0
InvalidOutput(output) == output.shape \in {"notarray", "empty"}

\* line 205: [output]
Wrap(output) ==
  CASE output.shape = "notarray" -> InnerNotArray
    [] output.shape = "empty" -> InnerEmpty
    [] OTHER -> Nested(output.d)

\* lines 198-205: the model call resolves and analyzeSentiment goes on
ModelResolves ==
  /\ pc = "await"
  /\ \E output \in PageOutputs :
       settled' = IF InvalidOutput(output)
                  THEN [ok |-> FALSE, output |-> output,
                        message |-> "Invalid sentiment output from local model."]
                  ELSE [ok |-> TRUE, output |-> output, message |-> ""]
  /\ pc' = "settled"
  /\ UNCHANGED <<globals, loadVars, errorVars, reviewText, loadingShown,
                 btnDisabled, resultVars, logVars, callVars>>

\* line 198: the model call rejects
ModelRejects ==
  /\ pc = "await"
  /\ \E message \in RejectMessages :
       settled' = [ok |-> FALSE, output |-> Rejected, message |-> message]
  /\ pc' = "settled"
  /\ UNCHANGED <<globals, loadVars, errorVars, reviewText, loadingShown,
                 btnDisabled, resultVars, logVars, callVars>>

\* lines 229-297, with the part of logToGoogleSheets (lines 208-219) that
\* runs before its await: the POST is sent and not waited for.
DisplaySentiment(result) ==
  \E parsed \in {ParseResult(result)} :
  \E decision \in {DetermineBusinessAction(parsed.score, StrLabel(parsed.label))} :
  \E sentimentStr \in {SentimentStr(parsed.label, parsed.score)} :
     /\ sentimentClasses' = sentimentClasses \cup {parsed.sentiment}
     /\ sentimentHTML' = [icon |-> GetSentimentIcon(parsed.sentiment), str |-> sentimentStr]
     /\ call' = CallRecord(parsed.score, StrLabel(parsed.label))
     /\ shownResult' = result
     /\ actionResult' = [shown |-> TRUE, text |-> decision.uiMessage, color |-> decision.uiColor]
     /\ lastLog' = [review |-> reviewText, sentiment |-> sentimentStr,
                    action |-> decision.actionCode]
     /\ pendingLogs' = pendingLogs + 1
     /\ lastWarn' = lastWarn

\* line 179: .then((result) => displaySentiment(result))
ThenStep ==
  /\ pc = "settled"
  /\ settled.ok
  /\ DisplaySentiment(Wrap(settled.output))
  /\ ref' \in {ref, call}
  /\ pc' = "finally"
  /\ UNCHANGED <<globals, loadVars, errorVars, reviewText, loadingShown,
                 btnDisabled, settled>>

\* lines 180-183: .catch
CatchStep ==
  /\ pc = "settled"
  /\ ~settled.ok
  /\ ShowError(IF settled.message # "" THEN settled.message
               ELSE "Failed to analyze sentiment.")
  /\ pc' = "finally"
  /\ UNCHANGED <<globals, loadVars, reviewText, loadingShown, btnDisabled,
                 resultVars, settled, logVars, callVars>>

\* lines 184-187: .finally
FinallyStep ==
  /\ pc = "finally"
  /\ loadingShown' = FALSE
  /\ btnDisabled' = FALSE
  /\ pc' = "idle"
  /\ settled' = NotSettled
  /\ UNCHANGED <<globals, loadVars, errorVars, reviewText, resultVars,
                 logVars, callVars>>

\* ---------------------------------------------------------------- logging
\* Mutant: a failed log reported to the user.
LogWarnShowsError(message) ==
  /\ lastWarn' = message
  /\ ShowError(message)

\* lines 221, 224: console.warn, and nothing else
LogWarn(message) ==
  /\ lastWarn' = message
  /\ UNCHANGED errorVars

\* lines 216-220: the POST is answered with an OK status
LogSucceeds ==
  /\ pendingLogs > 0
  /\ pendingLogs' = pendingLogs - 1
  /\ UNCHANGED <<globals, loadVars, errorVars, reviewText, loadingShown,
                 btnDisabled, resultVars, chainVars, lastLog, lastWarn, callVars>>

\* lines 220-222: the POST is answered with a non-OK status
LogNotOk ==
  /\ pendingLogs > 0
  /\ pendingLogs' = pendingLogs - 1
  /\ LogWarn("Failed to log to Google Sheets:")
  /\ UNCHANGED <<globals, loadVars, reviewText, loadingShown, btnDisabled,
                 resultVars, chainVars, lastLog, callVars>>

\* lines 223-225: the fetch throws
LogThrows ==
  /\ pendingLogs > 0
  /\ pendingLogs' = pendingLogs - 1
  /\ LogWarn("Error logging to Google Sheets:")
  /\ UNCHANGED <<globals, loadVars, reviewText, loadingShown, btnDisabled,
                 resultVars, chainVars, lastLog, callVars>>

\* ------------------------------------------------------------ the page
Next ==
  \/ ParseComplete
  \/ FetchFailed
  \/ ParseError
  \/ ModelLoaded
  \/ ModelLoadFailed
  \/ SaveApiToken
  \/ AnalyzeRandomReview
  \/ ModelResolves
  \/ ModelRejects
  \/ ThenStep
  \/ CatchStep
  \/ FinallyStep
  \/ LogSucceeds
  \/ LogNotOk
  \/ LogThrows

Spec == Init /\ [][Next]_vars

\* The promise chain of an analysis runs to its end once the model call
\* settles: the microtasks of lines 179-187 are always run.
FairSpec ==
  /\ Spec
  /\ WF_vars(ModelResolves \/ ModelRejects)
  /\ WF_vars(ThenStep)
  /\ WF_vars(CatchStep)
  /\ WF_vars(FinallyStep)

\* ------------------------------------------- the two functions called directly
\* Two calls in a row, of either function, on the page as loaded: ref holds
\* the first call of determineBusinessAction and call the second.
ClassifyCall ==
  /\ ~ref.made
  /\ ref' = call
  /\ \E confidence \in Confidences, label \in Labels :
       call' = CallRecord(confidence, label)
  /\ UNCHANGED <<globals, loadVars, errorVars, reviewText, loadingShown,
                 btnDisabled, resultVars, chainVars, logVars, shownResult>>

DisplayCall ==
  /\ ~ref.made
  /\ ref' = call
  /\ pendingLogs < MaxPending
  /\ \E result \in Results : DisplaySentiment(result)
  /\ UNCHANGED <<globals, loadVars, errorVars, reviewText, loadingShown,
                 btnDisabled, chainVars>>

NextFn ==
  \/ ClassifyCall
  \/ DisplayCall

\* The page as loaded, with no token saved.
InitFn == Init /\ storedToken = NoToken

SpecFn == InitFn /\ [][NextFn]_vars

\* ================================================================ claims
Calls == {k \in {ref, call} : k.made}
IsString(label) == label.t = "str"
UppercasesTo(label, word) == IsString(label) /\ ToUpperCase(label.s) = word
\* A label as the data model has it: a string, null or absent.
UnknownLabel(label) ==
  /\ label.t \in {"str", "null", "undef"}
  /\ ~UppercasesTo(label, POSITIVE)
  /\ ~UppercasesTo(label, NEGATIVE)
InUnitInterval(x) == x.t = "num" /\ 0 <= x.v /\ x.v <= One
Tier(decision) ==
  CASE decision.actionCode = "OFFER_COUPON" -> 1
    [] decision.actionCode = "REQUEST_FEEDBACK" -> 2
    [] decision.actionCode = "ASK_REFERRAL" -> 3
    [] OTHER -> 0

\* C1: every call returns the record the normalized score selects, first
\* match first: score <= 0.4 the coupon record, 0.4 < score < 0.7 the
\* feedback record, score >= 0.7 the referral record; message and colour are
\* the fixed pair of the action code.
C1_Thresholds ==
  \A k \in Calls :
    (~k.threw /\ k.norm.t = "num") =>
      /\ (k.norm.v <= LowThreshold) =>
           k.out = [actionCode |-> "OFFER_COUPON",
                    uiMessage |-> "We are truly sorry. Please accept this 50% discount coupon.",
                    uiColor |-> "#ef4444"]
      /\ (LowThreshold < k.norm.v /\ k.norm.v < HighThreshold) =>
           k.out = [actionCode |-> "REQUEST_FEEDBACK",
                    uiMessage |-> "Thank you! Could you tell us how we can improve?",
                    uiColor |-> "#6b7280"]
      /\ (k.norm.v >= HighThreshold) =>
           k.out = [actionCode |-> "ASK_REFERRAL",
                    uiMessage |-> "Glad you liked it! Refer a friend and earn rewards.",
                    uiColor |-> "#3b82f6"]

\* Two calls made, one with score exactly 0.4 and one with exactly 0.7.
C1_Witness ==
  /\ ref.made /\ call.made
  /\ ref.norm = Num(LowThreshold) /\ ref.out.actionCode = "OFFER_COUPON"
  /\ call.norm = Num(HighThreshold) /\ call.out.actionCode = "ASK_REFERRAL"

\* C2: for a confidence c in [0, 1], a label that uppercases to POSITIVE
\* gives normalizedScore = c, one that uppercases to NEGATIVE gives 1 - c,
\* any other label gives 0.5; the normalized score is in [0, 1].
C2_Normalization ==
  \A k \in Calls :
    (InUnitInterval(k.conf) /\ k.label.t \in {"str", "null", "undef"}) =>
      /\ ~k.threw
      /\ UppercasesTo(k.label, POSITIVE) => k.norm = k.conf
      /\ UppercasesTo(k.label, NEGATIVE) => k.norm = Num(One - k.conf.v)
      /\ UnknownLabel(k.label) => k.norm = Num(Neutral)
      /\ InUnitInterval(k.norm)

\* A mixed-case negative label with confidence 0.6: the score is 0.4.
C2_Witness ==
  /\ call.made
  /\ call.label = StrLabel(<<"N", "e", "g", "a", "t", "i", "v", "e">>)
  /\ call.conf = Num(One - LowThreshold)
  /\ call.norm = Num(LowThreshold)

\* C3: an empty, null, absent or unrecognised label, with any confidence at
\* all, makes the call return REQUEST_FEEDBACK and not fail.
C3_UnknownLabel ==
  \A k \in Calls :
    UnknownLabel(k.label) => (~k.threw /\ k.out.actionCode = "REQUEST_FEEDBACK")

\* A null label with a confidence that is no number.
C3_Witness ==
  /\ call.made
  /\ call.label = NullLabel
  /\ call.conf = Text
  /\ call.out.actionCode = "REQUEST_FEEDBACK"

\* C4 as stated: the classifier treats a confidence that is no number as
\* the default 0.5, for every label.
C4_ClassifierDefaults ==
  \A k \in Calls :
    (~k.threw /\ ~TypeofNumber(k.conf)) =>
      k.out = DetermineBusinessAction(Num(Neutral), k.label)

\* C4 amended: it is displaySentiment that treats a score whose typeof is
\* not "number" as absent: it shows 50.0% and the action of confidence 0.5,
\* REQUEST_FEEDBACK whatever the label.  determineBusinessAction called with
\* undefined and a POSITIVE or NEGATIVE label answers ASK_REFERRAL.
C4_DisplayDefaults ==
  /\ (/\ actionResult.shown
      /\ shownResult.shape = "data"
      /\ shownResult.d.t = "obj"
      /\ ~TypeofNumber(shownResult.d.score)) =>
        /\ lastLog.action = "REQUEST_FEEDBACK"
        /\ lastLog.sentiment.pct = Num((Neutral * 1000) \div One)
        /\ actionResult.color = "#6b7280"
  /\ \A k \in Calls :
       (/\ k.conf = Undefined
        /\ (UppercasesTo(k.label, POSITIVE) \/ UppercasesTo(k.label, NEGATIVE))) =>
         k.out.actionCode = "ASK_REFERRAL"

\* displaySentiment has shown a POSITIVE result whose score is a string.
C4_Witness ==
  /\ actionResult.shown
  /\ shownResult = Nested(ObjData(StrLabel(POSITIVE), NumStr(One - 1)))
  /\ lastLog.action = "REQUEST_FEEDBACK"

\* C5: with the label POSITIVE, of two calls the one with the smaller
\* confidence never gets the higher tier.
C5_Monotone ==
  (/\ ref.made /\ call.made
   /\ ref.label = StrLabel(POSITIVE) /\ call.label = StrLabel(POSITIVE)
   /\ ref.conf.t = "num" /\ call.conf.t = "num") =>
     /\ (ref.conf.v <= call.conf.v) => Tier(ref.out) <= Tier(call.out)
     /\ (ref.conf.v >= call.conf.v) => Tier(ref.out) >= Tier(call.out)

\* Confidence raised from 0.4 to 0.7: from the lowest tier to the highest.
C5_Witness ==
  /\ ref.made /\ call.made
  /\ ref.label = StrLabel(POSITIVE) /\ call.label = StrLabel(POSITIVE)
  /\ ref.conf = Num(LowThreshold) /\ call.conf = Num(HighThreshold)
  /\ Tier(ref.out) = 1 /\ Tier(call.out) = 3

\* C6: two calls with the same confidence and label return the same record,
\* whatever the page held at each call, and a call changes neither the
\* reviews, the token (in memory or saved) nor the model handle.
C6_Pure ==
  /\ [](\A j, k \in Calls :
          (j.conf = k.conf /\ j.label = k.label) =>
            (j.out = k.out /\ j.threw = k.threw))
  /\ [][(call' # call) => UNCHANGED globals]_vars

\* The same arguments twice, with different tokens held by the page.
C6_Witness ==
  /\ ref.made /\ call.made
  /\ ref.conf = call.conf /\ ref.label = call.label
  /\ ref.token # call.token
  /\ reviews # <<>>

\* C7: however a logging request ends, the result and action shown stay,
\* no error message appears, and the end of the analysis (indicator hidden,
\* button enabled) does not wait for the request.
C7_LogIsolated ==
  /\ [][(pendingLogs' < pendingLogs) =>
          UNCHANGED <<resultVars, errorVars, loadingShown, btnDisabled, reviewText>>]_vars
  /\ []((pc = "finally") => ENABLED FinallyStep)

\* A log has thrown, another is still in flight, and the page shows the
\* action with the button enabled and no error.
C7_Witness ==
  /\ lastWarn = "Error logging to Google Sheets:"
  /\ pendingLogs > 0
  /\ actionResult.shown
  /\ ~errorShown
  /\ ~loadingShown /\ ~btnDisabled /\ pc = "idle"

\* C8: a click calls the model only with reviews loaded and the handle set
\* by a successful load; otherwise it shows an error and leaves the review
\* shown, the indicator and the button as they were; after a failed model
\* load no analysis is ever in progress.
C8_ClickGuard ==
  /\ [][(AnalyzeRandomReview /\ pc' # pc) =>
          (reviews # <<>> /\ sentimentPipeline = "pipeline" /\ modelLoad = "loaded"
           /\ pc' = "await")]_vars
  /\ [][(AnalyzeRandomReview /\ (reviews = <<>> \/ sentimentPipeline = "null")) =>
          (errorShown' /\ UNCHANGED <<reviewText, loadingShown, btnDisabled, pc>>)]_vars
  /\ []((modelLoad = "failed") => (pc = "idle" /\ ~loadingShown /\ ~btnDisabled))

\* Reviews are loaded, the model load failed, and a click was refused.
C8_Witness ==
  /\ reviews # <<>>
  /\ modelLoad = "failed"
  /\ errorShown
  /\ errorText = "Sentiment model is not ready yet. Please wait a moment."

Failing(output) == output.shape \in {"rejected", "notarray", "empty"}

Unparseable(result) == result.shape # "data" \/ result.d.t # "obj"
\* a number greater than 0.5
AboveNeutral(x) == (x.t = "num" /\ x.v > Neutral) \/ (x.t = "inf" /\ x.v > 0)

\* C10: the bucket and the action shown for one result agree: a positive
\* bucket (label POSITIVE, score > 0.5) never comes with OFFER_COUPON, a
\* negative one (label NEGATIVE, score > 0.5) never with ASK_REFERRAL, and a
\* result that cannot be parsed gives the neutral bucket and
\* REQUEST_FEEDBACK.
C10_BucketAgrees ==
  actionResult.shown =>
    /\ (sentimentHTML.icon = "fa-thumbs-up") <=>
         (/\ ~Unparseable(shownResult)
          /\ UppercasesTo(shownResult.d.label, POSITIVE)
          /\ AboveNeutral(shownResult.d.score))
    /\ (sentimentHTML.icon = "fa-thumbs-down") <=>
         (/\ ~Unparseable(shownResult)
          /\ UppercasesTo(shownResult.d.label, NEGATIVE)
          /\ AboveNeutral(shownResult.d.score))
    /\ (sentimentHTML.icon = "fa-thumbs-up") => lastLog.action # "OFFER_COUPON"
    /\ (sentimentHTML.icon = "fa-thumbs-down") => lastLog.action # "ASK_REFERRAL"
    /\ Unparseable(shownResult) =>
         (sentimentHTML.icon = "fa-question-circle" /\ lastLog.action = "REQUEST_FEEDBACK")

\* A positive bucket with the middle action: POSITIVE at 0.55.
C10_Witness ==
  /\ actionResult.shown
  /\ shownResult = Nested(ObjData(StrLabel(POSITIVE), Num(Neutral + 1)))
  /\ sentimentHTML.icon = "fa-thumbs-up"
  /\ lastLog.action = "REQUEST_FEEDBACK"

====
